---- MODULE Spec2Model ----
(***************************************************************************)
(* Backup and Restore plugin for WordOps (wo/cli/plugins/backup_restore.py) *)
(* One behaviour is one invocation of `wo backup <site>` or                *)
(* `wo restore <site> <archive>` against a filesystem, a database and a    *)
(* set of external tools whose outcomes are chosen nondeterministically.   *)
(***************************************************************************)
EXTENDS Integers, Sequences, FiniteSets, TLC

\* ---------------------------------------------------------------- bounds
\* number of tables the site's database may hold before the run
MaxTables == 2

\* number of define() declarations in a wp-config.php given to _get_db_creds
MaxDecls == 4

\* ------------------------------------------------------------ data model
Sites == {"a", "b"}

\* the site the restored archive was taken from (its entry is nginx/<ArchiveSite>)
ArchiveSite == "a"

Tables == 1 .. MaxTables

\* tables created by the dump inside a restored archive (0 is not a site table)
ArchiveTables == {0, 1}

\* wp-config.php contents: a sequence of define() declarations <<key, value>>
CfgFull == << <<"DB_NAME", "wp_db">>, <<"DB_USER", "wp_user">>, <<"DB_PASSWORD", "secret">> >>

CfgReordered == << <<"OTHER", "x">>, <<"DB_PASSWORD", "secret">>, <<"DB_USER", "wp_user">>, <<"DB_NAME", "wp_db">> >>

CfgNoPassword == << <<"DB_NAME", "wp_db">>, <<"DB_USER", "wp_user">> >>

\* a directory tree: whether it exists, its plain files <<name, content>>,
\* and the content of wp-config.php inside it (a set of zero or one config)
NoDir == [exists |-> FALSE, files |-> {}, cfg |-> {}]

Dir(files, cfg) == [exists |-> TRUE, files |-> files, cfg |-> cfg]

\* what `wo site create <site> --html` leaves at /var/www/<site>/htdocs
PlaceholderSite == Dir({<<"index.html", "placeholder">>}, {})

SiteTrees ==
  { Dir({<<"index.html", "site">>}, {CfgFull}),
    Dir({<<"index.html", "site">>, <<"old.txt", "site">>}, {CfgReordered}),
    Dir({<<"index.html", "site">>}, {CfgNoPassword}),
    Dir({<<"index.html", "site">>}, {}) }

ArchiveTrees == { Dir({<<"index.html", "backup">>}, {CfgFull}) }

NoSql == [exists |-> FALSE, tables |-> {}]

Sql(tables) == [exists |-> TRUE, tables |-> tables]

NoConf == "<absent>"

NoNginx == [exists |-> FALSE, site |-> ArchiveSite, conf |-> NoConf]

Nginx(site, conf) == [exists |-> TRUE, site |-> site, conf |-> conf]

\* the archive file of the run: the file at backup_path (Restore) or at
\* BACKUP_BASE_DIR/<site>-<timestamp>.tar.gz (Backup)
Archive(state, htdocs, sql, nginx) ==
  [state |-> state, htdocs |-> htdocs, sql |-> sql, nginx |-> nginx]

NoArchive == Archive("absent", NoDir, NoSql, NoNginx)

CorruptArchive == Archive("corrupt", NoDir, NoSql, NoNginx)

InputArchives ==
  { NoArchive, CorruptArchive } \cup
  { Archive("ok", h, s, n) :
      h \in ArchiveTrees \cup {NoDir},
      s \in {NoSql} \cup { Sql(t) : t \in {{0}, ArchiveTables} },
      n \in {NoNginx, Nginx(ArchiveSite, "conf_backup")} }

\* WOShellExec.cmd_exec: the command exits zero, exits nonzero (reported to
\* the caller as a status), or cannot be run at all (an exception)
cmd_exec == {"ok", "nonzero", "raise"}

NoStaging == [exists |-> FALSE, htdocs |-> NoDir, sql |-> NoSql, nginx |-> NoNginx]

EmptyStaging == [exists |-> TRUE, htdocs |-> NoDir, sql |-> NoSql, nginx |-> NoNginx]

NoRun == [result |-> "none", retval |-> "none"]

NoCreds == [found |-> FALSE, name |-> "", user |-> "", password |-> ""]

\* ------------------------------------------------------------- the state
VARIABLES
  mode,        \* "backup" or "restore"
  sitename,    \* pargs.site_name[0]
  pc,          \* position of the run inside default()
  result,      \* "running", "done", "cancelled" or "failed"
  siteRoot,    \* /var/www/<site> is a directory
  docroot,     \* /var/www/<site>/htdocs
  nginxConf,   \* /etc/nginx/sites-available/<site>
  db,          \* tables of the site's database
  backupDir,   \* BACKUP_BASE_DIR is a directory
  archive,     \* the archive file of this run
  staging,     \* temp_dir and what it holds
  db_creds,    \* local variable db_creds
  tables_proc, \* local variable tables_proc: [rc, stdout]
  hist,        \* operations performed so far in this run, in order
  log,         \* messages emitted through Log
  before,      \* the filesystem and the database when the run started
  retval,      \* how default() came back to its caller
  first        \* outcome and retval of the run made before this one, if any

vars == << mode, sitename, pc, result, siteRoot, docroot, nginxConf, db,
           backupDir, archive, staging, db_creds, tables_proc, hist, log, before,
           retval, first >>

\* ---------------------------------------------------------- pure helpers
RECURSIVE FirstMatch(_, _, _)
\* re.search for define('<key>', '([^']+)'): index of the first declaration
\* of key with a non-empty value at or after position i, 0 when none
FirstMatch(cfg, key, i) ==
  IF i > Len(cfg) THEN 0
  ELSE IF cfg[i][1] = key /\ cfg[i][2] # "" THEN i
  ELSE FirstMatch(cfg, key, i + 1)

\* a parser that accepts a file in which one of the three is missing
_get_db_creds_partial(tree) ==
  IF tree.cfg = {} THEN NoCreds
  ELSE LET cfg == CHOOSE c \in tree.cfg : TRUE
           n == FirstMatch(cfg, "DB_NAME", 1)
           u == FirstMatch(cfg, "DB_USER", 1)
           p == FirstMatch(cfg, "DB_PASSWORD", 1)
       IN IF n # 0 /\ u # 0
          THEN [found |-> TRUE, name |-> cfg[n][2], user |-> cfg[u][2],
                password |-> IF p # 0 THEN cfg[p][2] ELSE ""]
          ELSE NoCreds

\* _get_db_creds applied to the wp-config.php of a tree
_get_db_creds(tree) ==
  IF tree.cfg = {} THEN NoCreds
  ELSE LET cfg == CHOOSE c \in tree.cfg : TRUE
           n == FirstMatch(cfg, "DB_NAME", 1)
           u == FirstMatch(cfg, "DB_USER", 1)
           p == FirstMatch(cfg, "DB_PASSWORD", 1)
       IN IF n # 0 /\ u # 0 /\ p # 0
          THEN [found |-> TRUE, name |-> cfg[n][2], user |-> cfg[u][2],
                password |-> cfg[p][2]]
          ELSE NoCreds

Msg(level, msg, args) == [level |-> level, msg |-> msg, args |-> args]

Did(e) == \E i \in DOMAIN hist : hist[i] = e

\* operations that end in an exception nothing in default() catches
Raises ==
  { "extract_failed", "archive_failed", "rmtree_failed", "move_failed",
    "copy_nginx_failed", "reload_raised" }

\* what the caller of default() gets: every return statement and the end of
\* the function give None, an uncaught exception propagates
ReturnValue(events) ==
  IF \E i \in DOMAIN events : events[i] \in Raises THEN "exception" ELSE "None"

\* return or exception outside the try block: the run is over
End(res, events, msgs) ==
  /\ pc' = "end"
  /\ retval' = ReturnValue(events)
  /\ result' = res
  /\ hist' = hist \o events
  /\ log' = log \cup msgs

\* return or exception inside the try block: the finally clause runs next
Exit(res, events, msgs) ==
  /\ pc' = "finally"
  /\ retval' = ReturnValue(events)
  /\ result' = res
  /\ hist' = hist \o events
  /\ log' = log \cup msgs

\* fall through to the next statement
Goto(next, events, msgs) ==
  /\ pc' = next
  /\ retval' = retval
  /\ result' = result
  /\ hist' = hist \o events
  /\ log' = log \cup msgs

\* ----------------------------------------------------------------- Init
Init ==
  /\ mode \in {"backup", "restore"}
  /\ sitename \in Sites
  /\ pc = "start"
  /\ result = "running"
  /\ siteRoot \in BOOLEAN
  /\ docroot \in (IF siteRoot THEN SiteTrees \cup {NoDir} ELSE {NoDir})
  /\ nginxConf \in (IF siteRoot THEN {NoConf, "conf_site"} ELSE {NoConf})
  /\ db \in SUBSET Tables
  /\ backupDir \in (IF mode = "backup" THEN BOOLEAN ELSE {TRUE})
  /\ archive \in (IF mode = "backup" THEN {NoArchive} ELSE InputArchives)
  /\ staging = NoStaging
  /\ db_creds = NoCreds
  /\ tables_proc = [rc |-> 0, stdout |-> {}]
  /\ hist = << >>
  /\ log = {}
  /\ before = [siteRoot |-> siteRoot, docroot |-> docroot,
                nginxConf |-> nginxConf, db |-> db, backupDir |-> backupDir]
  /\ retval = "running"
  /\ first = NoRun

\* --------------------------------------------------------------- Backup
\* lines 80-84: Locating
B_Locate ==
  /\ mode = "backup" /\ pc = "start"
  /\ IF ~docroot.exists
     THEN End("failed", << >>, {Msg("error", "Site htdocs not found", {})})
     ELSE Goto("b_dircheck", <<"located">>, {Msg("info", "Starting backup", {})})
  /\ UNCHANGED << mode, sitename, siteRoot, docroot, nginxConf, db, backupDir,
                  archive, staging, db_creds, tables_proc, before, first >>

\* lines 86-99: DirectoryCheck, with the confirmation prompt, os.makedirs and
\* _set_permissions on the new directory
B_DirCheck ==
  /\ mode = "backup" /\ pc = "b_dircheck"
  /\ IF backupDir
     THEN /\ Goto("b_creds", << >>, {})
          /\ UNCHANGED backupDir
     ELSE \E answer \in BOOLEAN, made \in BOOLEAN, chowned \in BOOLEAN :
            IF ~answer
            THEN /\ End("cancelled", <<"asked", "declined">>,
                        {Msg("info", "Backup cancelled by user.", {})})
                 /\ UNCHANGED backupDir
            ELSE IF ~made
            THEN /\ End("failed", <<"asked", "makedirs_failed">>,
                        {Msg("info", "Creating backup directory", {}),
                         Msg("error", "Unable to create backup directory", {})})
                 /\ UNCHANGED backupDir
            ELSE /\ backupDir' = TRUE
                 /\ Goto("b_creds",
                         <<"asked", "makedirs">> \o
                           (IF chowned THEN <<"chown">> ELSE <<"chown_failed">>),
                         {Msg("info", "Creating backup directory", {})} \cup
                           (IF chowned THEN {}
                            ELSE {Msg("warn", "Could not set permissions on backup directory", {})}))
  /\ UNCHANGED << mode, sitename, siteRoot, docroot, nginxConf, db,
                  archive, staging, db_creds, tables_proc, before, first >>

\* lines 101-107: CredentialsRead
B_Creds ==
  /\ mode = "backup" /\ pc = "b_creds"
  /\ LET c == _get_db_creds(docroot)
     IN IF ~c.found
        THEN /\ End("failed", <<"creds_failed">>,
                    {Msg("info", "Reading database credentials", {}),
                     Msg("error", "Could not parse DB credentials", {})})
             /\ UNCHANGED db_creds
        ELSE /\ db_creds' = c
             /\ Goto("b_mkdtemp", <<"creds">>,
                     {Msg("info", "Reading database credentials", {}),
                      Msg("info", "Credentials found for database", {c.name})})
  /\ UNCHANGED << mode, sitename, siteRoot, docroot, nginxConf, db, backupDir,
                  archive, staging, tables_proc, before, first >>

\* lines 109-110: tempfile.mkdtemp()
B_Mkdtemp ==
  /\ mode = "backup" /\ pc = "b_mkdtemp"
  /\ staging' = EmptyStaging
  /\ Goto("b_dump", <<"mkdtemp">>, {})
  /\ UNCHANGED << mode, sitename, siteRoot, docroot, nginxConf, db, backupDir,
                  archive, db_creds, tables_proc, before, first >>

\* a dump whose exit status is not examined
DumpFailed_never(rc) == FALSE

\* line 121: the dump is an error when mysqldump exits nonzero
DumpFailed(rc) == rc # 0

\* what mysqldump did, whatever the run makes of it
DumpEvent(rc) == IF rc = 0 THEN <<"dump">> ELSE <<"dump_failed">>

\* lines 113-123: Dumping; the dump file is opened for writing before
\* mysqldump runs
B_Dump ==
  /\ mode = "backup" /\ pc = "b_dump"
  /\ \E rc \in {0, 1} :
       /\ staging' = [staging EXCEPT !.sql = IF rc = 0 THEN Sql(db) ELSE Sql({})]
       /\ IF DumpFailed(rc)
          THEN Exit("failed", DumpEvent(rc),
                    {Msg("info", "Dumping database", {}),
                     Msg("error", "mysqldump failed", {"stderr"})})
          ELSE Goto("b_archive", DumpEvent(rc),
                    {Msg("info", "Dumping database", {})})
  /\ UNCHANGED << mode, sitename, siteRoot, docroot, nginxConf, db, backupDir,
                  archive, db_creds, tables_proc, before, first >>

\* an archive written without the dump file
Pack_withoutDump(htdocs, sql, site, conf) ==
  Archive("ok", htdocs, NoSql,
          IF conf # NoConf THEN Nginx(site, conf) ELSE NoNginx)

\* lines 130-136: the members added to the archive
Pack(htdocs, sql, site, conf) ==
  Archive("ok", htdocs, sql,
          IF conf # NoConf THEN Nginx(site, conf) ELSE NoNginx)

\* lines 125-136: Archiving; tarfile.open(.., "w:gz") creates the output file,
\* an I/O error while adding members leaves it truncated
B_Archive ==
  /\ mode = "backup" /\ pc = "b_archive"
  /\ \E ok \in BOOLEAN :
       IF ok
       THEN /\ archive' = Pack(docroot, staging.sql, sitename, nginxConf)
            /\ Goto("b_report", <<"archive">>,
                    {Msg("info", "Archiving website files, database, and Nginx config", {})}
                    \cup (IF nginxConf # NoConf THEN {}
                          ELSE {Msg("warn", "Nginx config not found, skipping.", {})}))
       ELSE /\ archive' \in {NoArchive, CorruptArchive}
            /\ Exit("failed", <<"archive_failed">>,
                    {Msg("info", "Archiving website files, database, and Nginx config", {})})
  /\ UNCHANGED << mode, sitename, siteRoot, docroot, nginxConf, db, backupDir,
                  staging, db_creds, tables_proc, before, first >>

\* lines 139-141: report the archive size
B_Report ==
  /\ mode = "backup" /\ pc = "b_report"
  /\ Exit("done", << >>,
          {Msg("success", "Backup complete!", {}),
           Msg("info", "Backup file created at", {})})
  /\ UNCHANGED << mode, sitename, siteRoot, docroot, nginxConf, db, backupDir,
                  archive, staging, db_creds, tables_proc, before, first >>

\* -------------------------------------------------------------- Restore
\* lines 171-173: Validate
R_Validate ==
  /\ mode = "restore" /\ pc = "start"
  /\ IF archive.state = "absent"
     THEN End("failed", << >>, {Msg("error", "Backup file not found", {})})
     ELSE Goto("r_site", <<"file_found">>, {})
  /\ UNCHANGED << mode, sitename, siteRoot, docroot, nginxConf, db, backupDir,
                  archive, staging, db_creds, tables_proc, before, first >>

\* lines 175-186: EnsureSiteExists; cmd_exec returns on a nonzero exit status
\* and raises when the command cannot be run
R_EnsureSite ==
  /\ mode = "restore" /\ pc = "r_site"
  /\ IF siteRoot
     THEN /\ Goto("r_confirm", << >>, {})
          /\ UNCHANGED << siteRoot, docroot, nginxConf >>
     ELSE \E answer \in BOOLEAN, out \in cmd_exec :
            IF ~answer
            THEN /\ End("cancelled", <<"declined">>,
                        {Msg("info", "Restore cancelled by user.", {})})
                 /\ UNCHANGED << siteRoot, docroot, nginxConf >>
            ELSE IF out = "ok"
            THEN /\ siteRoot' = TRUE
                 /\ docroot' = PlaceholderSite
                 /\ nginxConf' = "conf_placeholder"
                 /\ Goto("r_confirm", <<"site_created">>,
                         {Msg("info", "Creating placeholder site", {})})
            ELSE IF out = "nonzero"
            THEN /\ Goto("r_confirm", <<"site_create_failed">>,
                         {Msg("info", "Creating placeholder site", {})})
                 /\ UNCHANGED << siteRoot, docroot, nginxConf >>
            ELSE /\ End("failed", <<"site_create_failed">>,
                        {Msg("info", "Creating placeholder site", {}),
                         Msg("error", "Failed to create site", {"exception"})})
                 /\ UNCHANGED << siteRoot, docroot, nginxConf >>
  /\ UNCHANGED << mode, sitename, db, backupDir, archive, staging, db_creds,
                  tables_proc, before, first >>

\* lines 191-193: Confirm
R_Confirm ==
  /\ mode = "restore" /\ pc = "r_confirm"
  /\ \E answer \in BOOLEAN :
       IF answer
       THEN Goto("r_mkdtemp", <<"confirmed">>, {})
       ELSE End("cancelled", <<"declined">>,
                {Msg("info", "Restore cancelled by user.", {})})
  /\ UNCHANGED << mode, sitename, siteRoot, docroot, nginxConf, db, backupDir,
                  archive, staging, db_creds, tables_proc, before, first >>

\* lines 195-196: tempfile.mkdtemp()
R_Mkdtemp ==
  /\ mode = "restore" /\ pc = "r_mkdtemp"
  /\ staging' = EmptyStaging
  /\ Goto("r_extract", <<"mkdtemp">>, {Msg("info", "Starting restore", {})})
  /\ UNCHANGED << mode, sitename, siteRoot, docroot, nginxConf, db, backupDir,
                  archive, db_creds, tables_proc, before, first >>

\* line 202: tar.extractall(path=temp_dir)
Extracted(a) ==
  [exists |-> TRUE, htdocs |-> a.htdocs, sql |-> a.sql, nginx |-> a.nginx]

\* lines 199-202: Extract; tarfile.open raises on a file that is not a gzip tar
R_Extract ==
  /\ mode = "restore" /\ pc = "r_extract"
  /\ IF archive.state # "ok"
     THEN /\ Exit("failed", <<"extract_failed">>,
                  {Msg("info", "Extracting backup file", {})})
          /\ UNCHANGED staging
     ELSE /\ staging' = Extracted(archive)
          /\ Goto("r_check", <<"extracted">>,
                  {Msg("info", "Extracting backup file", {})})
  /\ UNCHANGED << mode, sitename, siteRoot, docroot, nginxConf, db, backupDir,
                  archive, db_creds, tables_proc, before, first >>

\* a validation that is satisfied by either entry alone
ArchiveContentsValid_either(stg) == stg.htdocs.exists \/ stg.sql.exists

\* line 208: the extracted content has an htdocs directory and a database.sql file
ArchiveContentsValid(stg) == stg.htdocs.exists /\ stg.sql.exists

\* lines 204-210: ValidateArchiveContents
R_ValidateContents ==
  /\ mode = "restore" /\ pc = "r_check"
  /\ IF ~ArchiveContentsValid(staging)
     THEN Exit("failed", <<"invalid_archive">>,
               {Msg("error", "Backup archive is invalid. Missing htdocs or database.sql.", {})})
     ELSE Goto("r_creds", <<"validated">>, {})
  /\ UNCHANGED << mode, sitename, siteRoot, docroot, nginxConf, db, backupDir,
                  archive, staging, db_creds, tables_proc, before, first >>

\* lines 212-217: CredentialsRead, from the target site's wp-config.php
R_Creds ==
  /\ mode = "restore" /\ pc = "r_creds"
  /\ LET c == _get_db_creds(docroot)
     IN IF ~c.found
        THEN /\ Exit("failed", <<"creds_failed">>,
                     {Msg("info", "Reading database credentials", {}),
                      Msg("error", "Could not read DB credentials from site", {})})
             /\ UNCHANGED db_creds
        ELSE /\ db_creds' = c
             /\ Goto("r_enumerate", <<"creds">>,
                     {Msg("info", "Reading database credentials", {})})
  /\ UNCHANGED << mode, sitename, siteRoot, docroot, nginxConf, db, backupDir,
                  archive, staging, tables_proc, before, first >>

\* lines 219-225: SHOW TABLES; the exit status is recorded but not examined
R_Enumerate ==
  /\ mode = "restore" /\ pc = "r_enumerate"
  /\ \E ok \in BOOLEAN :
       /\ tables_proc' = IF ok THEN [rc |-> 0, stdout |-> db]
                               ELSE [rc |-> 1, stdout |-> {}]
       /\ Goto("r_drop",
               IF ok THEN <<"enumerate">> ELSE <<"enumerate_failed">>,
               {Msg("info", "Dropping all tables from database", {db_creds.name})})
  /\ UNCHANGED << mode, sitename, siteRoot, docroot, nginxConf, db, backupDir,
                  archive, staging, db_creds, before, first >>

\* a drop batch issued whatever SHOW TABLES printed
DropIssued_always(proc) == TRUE

\* line 226: the drop batch is issued when SHOW TABLES printed something
DropIssued(proc) == proc.stdout # {}

\* a drop batch whose exit status is not examined
DropFailed_never(rc) == FALSE

\* line 233: the drop batch is an error when mysql exits nonzero
DropFailed(rc) == rc # 0

\* what the drop batch did, whatever the run makes of it
DropEvent(rc) == IF rc = 0 THEN <<"drop">> ELSE <<"drop_failed">>

\* lines 226-235: Drop
R_Drop ==
  /\ mode = "restore" /\ pc = "r_drop"
  /\ IF ~DropIssued(tables_proc)
     THEN /\ Goto("r_import", << >>, {})
          /\ UNCHANGED db
     ELSE \E rc \in {0, 1}, left \in SUBSET db :
            /\ db' = IF rc = 0 THEN db \ tables_proc.stdout ELSE left
            /\ IF DropFailed(rc)
               THEN Exit("failed", DropEvent(rc),
                         {Msg("error", "Failed to drop tables", {"stderr"})})
               ELSE Goto("r_import", DropEvent(rc), {})
  /\ UNCHANGED << mode, sitename, siteRoot, docroot, nginxConf, backupDir,
                  archive, staging, db_creds, tables_proc, before, first >>

\* an import whose exit status is not examined
ImportFailed_never(rc) == FALSE

\* line 244: the import is an error when mysql exits nonzero
ImportFailed(rc) == rc # 0

\* what the import did, whatever the run makes of it
ImportEvent(rc) == IF rc = 0 THEN <<"import">> ELSE <<"import_failed">>

\* lines 237-246: Import
R_Import ==
  /\ mode = "restore" /\ pc = "r_import"
  /\ \E rc \in {0, 1}, part \in SUBSET staging.sql.tables :
       /\ db' = IF rc = 0 THEN db \cup staging.sql.tables ELSE db \cup part
       /\ IF ImportFailed(rc)
          THEN Exit("failed", ImportEvent(rc),
                    {Msg("info", "Importing database from backup", {}),
                     Msg("error", "Database import failed", {"stderr"})})
          ELSE Goto("r_files", ImportEvent(rc),
                    {Msg("info", "Importing database from backup", {})})
  /\ UNCHANGED << mode, sitename, siteRoot, docroot, nginxConf, backupDir,
                  archive, staging, db_creds, tables_proc, before, first >>

\* a document root merged with the extracted tree instead of replaced by it
Replaced_merge(old, new) ==
  Dir({f \in old.files : \A g \in new.files : g[1] # f[1]} \cup new.files,
      IF new.cfg = {} THEN old.cfg ELSE new.cfg)

\* lines 250-252: the document root after shutil.rmtree(htdocs_path) and
\* shutil.move(extracted_htdocs, site_root)
Replaced(old, new) == new

\* lines 248-252: FileReplace
R_FileReplace ==
  /\ mode = "restore" /\ pc = "r_files"
  /\ \E out \in {"ok", "rmtree_failed", "move_failed"},
        f \in SUBSET docroot.files, c \in SUBSET docroot.cfg :
       IF out = "rmtree_failed" /\ docroot.exists
       THEN /\ docroot' = Dir(f, c)
            /\ UNCHANGED staging
            /\ Exit("failed", <<"rmtree_failed">>,
                    {Msg("info", "Replacing website files", {})})
       ELSE IF out = "ok" /\ siteRoot
       THEN /\ docroot' = Replaced(docroot, staging.htdocs)
            /\ staging' = [staging EXCEPT !.htdocs = NoDir]
            /\ Goto("r_nginx",
                    (IF docroot.exists THEN <<"rmtree">> ELSE << >>) \o <<"move">>,
                    {Msg("info", "Replacing website files", {})})
       ELSE /\ docroot' = NoDir
            /\ UNCHANGED staging
            /\ Exit("failed",
                    (IF docroot.exists THEN <<"rmtree">> ELSE << >>) \o <<"move_failed">>,
                    {Msg("info", "Replacing website files", {})})
  /\ UNCHANGED << mode, sitename, siteRoot, nginxConf, db, backupDir,
                  archive, db_creds, tables_proc, before, first >>

\* lines 206, 254: the file temp_dir/nginx/<sitename>, NoConf when it is absent
extracted_nginx_conf(stg, site) ==
  IF stg.nginx.exists /\ stg.nginx.site = site THEN stg.nginx.conf ELSE NoConf

\* lines 254-256: copy the extracted proxy config over the site's
R_CopyNginx ==
  /\ mode = "restore" /\ pc = "r_nginx"
  /\ LET conf == extracted_nginx_conf(staging, sitename)
     IN IF conf = NoConf
        THEN /\ Goto("r_perms", << >>, {})
             /\ UNCHANGED nginxConf
        ELSE \E ok \in BOOLEAN :
               IF ok
               THEN /\ nginxConf' = conf
                    /\ Goto("r_perms", <<"copy_nginx">>,
                            {Msg("info", "Restoring Nginx configuration", {})})
               ELSE /\ UNCHANGED nginxConf
                    /\ Exit("failed", <<"copy_nginx_failed">>,
                            {Msg("info", "Restoring Nginx configuration", {})})
  /\ UNCHANGED << mode, sitename, siteRoot, docroot, db, backupDir,
                  archive, staging, db_creds, tables_proc, before, first >>

\* a permission fix whose failure ends the run
R_Permissions_abort ==
  /\ mode = "restore" /\ pc = "r_perms"
  /\ \E ok \in BOOLEAN :
       IF ok
       THEN Goto("r_reload", <<"chown">>,
                 {Msg("info", "Setting file and directory permissions", {})})
       ELSE Exit("failed", <<"chown_failed">>,
                 {Msg("info", "Setting file and directory permissions", {}),
                  Msg("warn", "Could not set www-data permissions. Please set them manually.", {})})
  /\ UNCHANGED << mode, sitename, siteRoot, docroot, nginxConf, db, backupDir,
                  archive, staging, db_creds, tables_proc, before, first >>

\* lines 258-261: PermissionFix; _set_permissions returns False on failure
R_Permissions ==
  /\ mode = "restore" /\ pc = "r_perms"
  /\ \E ok \in BOOLEAN :
       IF ok
       THEN Goto("r_reload", <<"chown">>,
                 {Msg("info", "Setting file and directory permissions", {})})
       ELSE Goto("r_reload", <<"chown_failed">>,
                 {Msg("info", "Setting file and directory permissions", {}),
                  Msg("warn", "Could not set www-data permissions. Please set them manually.", {})})
  /\ UNCHANGED << mode, sitename, siteRoot, docroot, nginxConf, db, backupDir,
                  archive, staging, db_creds, tables_proc, before, first >>

\* lines 263-267: ServiceReload; the value cmd_exec returns is discarded
R_Reload ==
  /\ mode = "restore" /\ pc = "r_reload"
  /\ \E out \in cmd_exec :
       IF out = "raise"
       THEN Exit("failed", <<"reload_raised">>,
                 {Msg("info", "Reloading Nginx stack", {})})
       ELSE Exit("done",
                 IF out = "ok" THEN <<"reload">> ELSE <<"reload_failed">>,
                 {Msg("info", "Reloading Nginx stack", {}),
                  Msg("success", "Restore complete!", {})})
  /\ UNCHANGED << mode, sitename, siteRoot, docroot, nginxConf, db, backupDir,
                  archive, staging, db_creds, tables_proc, before, first >>

\* ------------------------------------------------------------- clean up
\* a clean-up placed at the end of the try block instead of in a finally clause
Finally_onSuccessOnly ==
  /\ pc = "finally"
  /\ staging' = IF result = "done" THEN NoStaging ELSE staging
  /\ pc' = "end"
  /\ UNCHANGED << mode, sitename, result, siteRoot, docroot, nginxConf, db,
                  backupDir, archive, db_creds, tables_proc, hist, log, before,
                  retval, first >>

\* a clean-up that removes the document root along with the staging directory
Finally_removesDocroot ==
  /\ pc = "finally"
  /\ staging' = NoStaging
  /\ docroot' = NoDir
  /\ pc' = "end"
  /\ UNCHANGED << mode, sitename, result, siteRoot, nginxConf, db,
                  backupDir, archive, db_creds, tables_proc, hist, log, before,
                  retval, first >>

\* lines 143-145 and 269-271: finally: shutil.rmtree(temp_dir)
Finally ==
  /\ pc = "finally"
  /\ staging' = NoStaging
  /\ pc' = "end"
  /\ UNCHANGED << mode, sitename, result, siteRoot, docroot, nginxConf, db,
                  backupDir, archive, db_creds, tables_proc, hist, log, before,
                  retval, first >>

Next ==
  \/ B_Locate \/ B_DirCheck \/ B_Creds \/ B_Mkdtemp \/ B_Dump \/ B_Archive
  \/ B_Report
  \/ R_Validate \/ R_EnsureSite \/ R_Confirm \/ R_Mkdtemp \/ R_Extract
  \/ R_ValidateContents \/ R_Creds \/ R_Enumerate \/ R_Drop \/ R_Import
  \/ R_FileReplace \/ R_CopyNginx \/ R_Permissions \/ R_Reload
  \/ Finally

Spec == Init /\ [][Next]_vars

\* ------------------------------------------------- _get_db_creds alone
CredKeys == {"DB_NAME", "DB_USER", "DB_PASSWORD"}

\* the declarations a file may hold: the three keys and unrelated ones, each
\* with an empty or a non-empty quoted value
Decls == (CredKeys \cup {"OTHER"}) \X {"", "x", "y"}

\* the files given to _get_db_creds: unreadable, or any sequence of declarations
CredInputs ==
  {NoDir} \cup
  { Dir({}, {c}) : c \in UNION { [1 .. n -> Decls] : n \in 0 .. MaxDecls } }

InitCreds ==
  /\ mode = "creds"
  /\ sitename = "a"
  /\ pc = "start"
  /\ result = "running"
  /\ siteRoot = TRUE
  /\ docroot \in CredInputs
  /\ nginxConf = NoConf
  /\ db = {}
  /\ backupDir = TRUE
  /\ archive = NoArchive
  /\ staging = NoStaging
  /\ db_creds = NoCreds
  /\ tables_proc = [rc |-> 0, stdout |-> {}]
  /\ hist = << >>
  /\ log = {}
  /\ before = [siteRoot |-> siteRoot, docroot |-> docroot,
                nginxConf |-> nginxConf, db |-> db, backupDir |-> backupDir]
  /\ retval = "running"
  /\ first = NoRun

\* lines 22-40: one call of _get_db_creds
ParseCreds ==
  /\ mode = "creds" /\ pc = "start"
  /\ db_creds' = _get_db_creds(docroot)
  /\ pc' = "end"
  /\ UNCHANGED << mode, sitename, result, siteRoot, docroot, nginxConf, db,
                  backupDir, archive, staging, tables_proc, hist, log, before,
                  retval, first >>

NextCreds == ParseCreds

SpecCreds == InitCreds /\ [][NextCreds]_vars

\* ------------------------------------------------------- two invocations
\* the command is invoked a second time, on any site and in any environment;
\* what the caller saw of the first run is kept in first
Restart ==
  /\ pc = "end" /\ first = NoRun
  /\ first' = [result |-> result, retval |-> retval]
  /\ mode' \in {"backup", "restore"}
  /\ sitename' \in Sites
  /\ pc' = "start"
  /\ result' = "running"
  /\ siteRoot' \in BOOLEAN
  /\ docroot' \in (IF siteRoot' THEN SiteTrees \cup {NoDir} ELSE {NoDir})
  /\ nginxConf' \in (IF siteRoot' THEN {NoConf, "conf_site"} ELSE {NoConf})
  /\ db' \in SUBSET Tables
  /\ backupDir' \in (IF mode' = "backup" THEN BOOLEAN ELSE {TRUE})
  /\ archive' \in (IF mode' = "backup" THEN {NoArchive} ELSE InputArchives)
  /\ staging' = NoStaging
  /\ db_creds' = NoCreds
  /\ tables_proc' = [rc |-> 0, stdout |-> {}]
  /\ hist' = << >>
  /\ log' = {}
  /\ before' = [siteRoot |-> siteRoot', docroot |-> docroot',
                 nginxConf |-> nginxConf', db |-> db', backupDir |-> backupDir']
  /\ retval' = "running"

NextTwoRuns == Next \/ Restart

SpecTwoRuns == Init /\ [][NextTwoRuns]_vars

\* ------------------------------------------------------------ properties
Ended == pc = "end"

\* position of the first occurrence of event e in hist, 0 when it never occurred
Pos(e) ==
  IF Did(e)
  THEN CHOOSE i \in DOMAIN hist : hist[i] = e /\ \A j \in 1 .. (i - 1) : hist[j] # e
  ELSE 0

\* operations that change the database, the site's files or its proxy config
Destructive ==
  { "drop", "drop_failed", "import", "import_failed", "rmtree", "rmtree_failed",
    "move", "move_failed", "copy_nginx", "copy_nginx_failed" }

\* operations that create or change anything outside the process
Mutating ==
  Destructive \cup {"makedirs", "chown", "site_created", "mkdtemp", "dump", "archive"}

\* external tools that ended in failure
ToolFailures ==
  { "site_create_failed", "extract_failed", "enumerate_failed", "drop_failed",
    "import_failed", "rmtree_failed", "move_failed", "copy_nginx_failed",
    "chown_failed", "reload_failed", "reload_raised", "makedirs_failed",
    "dump_failed",
    "archive_failed" }

\* C1: when a Backup or Restore run has ended, in whichever way, its staging
\* directory does not exist.
C1_StagingReleased == Ended => ~staging.exists

\* C1 witness: a run that allocated a staging directory and ended on a failure
\* in file replacement.
C1_Witness == Ended /\ Did("mkdtemp") /\ Did("move_failed") /\ result = "failed"

\* C2: every step that invokes the import command starts in a state where the
\* target database contains no table.
C2_ImportOnlyIntoEmptyDatabase ==
  [][ ( /\ Len(hist') = Len(hist) + 1
        /\ hist'[Len(hist')] \in {"import", "import_failed"} ) => db = {} ]_vars

\* C3: once the drop command has exited nonzero, the import command is never
\* invoked in that run and the run is a failure.
C3_DropFailureLeavesImportUninvoked ==
  Did("drop_failed") =>
    /\ ~Did("import") /\ ~Did("import_failed")
    /\ result = "failed"
    /\ pc \in {"finally", "end"}

\* C3 witness: a run that ended after its drop command exited nonzero.
C3_Witness == Ended /\ Did("drop_failed")

\* C4: a run that was cancelled by a declined confirmation performed no
\* mutating operation: nothing was created, dropped, imported, removed, moved
\* or overwritten.
C4_CancelledRunMutatesNothing ==
  result = "cancelled" =>
    /\ \A i \in DOMAIN hist : hist[i] \notin Mutating
    /\ siteRoot = before.siteRoot
    /\ docroot = before.docroot
    /\ nginxConf = before.nginxConf
    /\ db = before.db
    /\ backupDir = before.backupDir
    /\ ~staging.exists

\* C5: in Restore, a destructive operation occurs only after, in this order,
\* the backup file was found, the destructive confirmation was accepted, the
\* archive was extracted, it was found to contain htdocs and database.sql,
\* and the target site's credentials were extracted.
C5_DestructiveOnlyAfterAllChecks ==
  mode = "restore" =>
    \A i \in DOMAIN hist :
      hist[i] \in Destructive =>
        /\ 0 < Pos("file_found")
        /\ Pos("file_found") < Pos("confirmed")
        /\ Pos("confirmed") < Pos("extracted")
        /\ Pos("extracted") < Pos("validated")
        /\ Pos("validated") < Pos("creds")
        /\ Pos("creds") < i
        /\ archive.state = "ok"
        /\ archive.htdocs.exists /\ archive.sql.exists
        /\ db_creds.found

\* C5 witness: a Restore run that has dropped tables.
C5_Witness == mode = "restore" /\ Did("drop") /\ before.db # {}

\* C6: a Restore run in which table enumeration, drop or import exited
\* nonzero ends as a failure with the document root and the proxy config file
\* as they were before the run.
C6_DatabaseFailureLeavesFilesUntouched ==
  ( /\ Ended
    /\ mode = "restore"
    /\ Did("enumerate_failed") \/ Did("drop_failed") \/ Did("import_failed") )
  => /\ result = "failed"
     /\ docroot = before.docroot
     /\ nginxConf = before.nginxConf

\* C7: in Restore, when table enumeration succeeded and reported zero tables,
\* no drop statement is issued and the import is performed.
C7_EmptyDatabaseSkipsDrop ==
  ( Did("enumerate") /\ tables_proc.rc = 0 /\ tables_proc.stdout = {} ) =>
    /\ ~Did("drop") /\ ~Did("drop_failed")
    /\ pc \notin {"r_drop", "r_import"} => Did("import") \/ Did("import_failed")

\* C7 witness: the import has run after an enumeration that reported no table.
C7_Witness ==
  Did("enumerate") /\ tables_proc.rc = 0 /\ tables_proc.stdout = {} /\ Did("import")

\* C8: after a Restore run that reached Done, the document root is exactly the
\* archive's htdocs tree: every file of the archive is there and no other file.
C8_DocumentRootReplaced ==
  ( Ended /\ mode = "restore" /\ result = "done" ) =>
    /\ docroot.exists
    /\ docroot.files = archive.htdocs.files
    /\ docroot.cfg = archive.htdocs.cfg

\* C8 witness: a Restore run reached Done over a document root that held a
\* file the archive does not contain.
C8_Witness ==
  /\ Ended /\ mode = "restore" /\ result = "done"
  /\ \E f \in before.docroot.files : \A g \in archive.htdocs.files : g[1] # f[1]

\* C9: after a Restore run that reached Done, the site's proxy config is the
\* archive's proxy config entry when the archive has one, whatever the target
\* site is called, and is unchanged when the archive has none.
C9_ProxyConfigRestored ==
  ( Ended /\ mode = "restore" /\ result = "done" ) =>
    IF archive.nginx.exists
    THEN nginxConf = archive.nginx.conf
    ELSE nginxConf = before.nginxConf

\* C10: a Restore of a valid archive into a site that did not exist, with the
\* placeholder created, the overwrite confirmed and no tool failing, ends Done
\* with the archive's files at the document root and its tables in the
\* database.
C10_RestoreIntoFreshPlaceholder ==
  ( /\ Ended /\ mode = "restore"
    /\ ~before.siteRoot /\ Did("site_created") /\ Did("confirmed")
    /\ archive.state = "ok" /\ archive.htdocs.exists /\ archive.sql.exists
    /\ \A i \in DOMAIN hist : hist[i] \notin ToolFailures )
  => /\ result = "done"
     /\ docroot = archive.htdocs
     /\ archive.sql.tables \subseteq db

\* C11: of two runs that ended differently (Done, Cancelled, failure), the
\* caller got different programmatic results.
C11_OutcomesDistinguishable ==
  ( Ended /\ first # NoRun /\ first.result # result ) => first.retval # retval

\* C12: a Restore run whose import and file replacement completed attempts
\* the reverse-proxy reload, and a reload that exits nonzero is surfaced: the
\* step logs a warning or an error, or the run does not report success.
C12_ReloadAttemptedAndFailureSurfaced ==
  /\ []( ( Ended /\ mode = "restore" /\ Did("import") /\ Did("move")
           /\ ~Did("copy_nginx_failed") )
         => ( Did("reload") \/ Did("reload_failed") \/ Did("reload_raised") ) )
  /\ [][ ( /\ Len(hist') = Len(hist) + 1
           /\ hist'[Len(hist')] = "reload_failed" )
         => ( \/ result' # "done"
              \/ \E m \in log' \ log : m.level \in {"warn", "error"} ) ]_vars

\* C13: the archive written by a Backup run that reached Done is readable and
\* passes Restore's content validation; the proxy config entry is there
\* exactly when the site's proxy config file existed, its absence is reported
\* by a warning, and a run that wrote its archive is never a failure.
C13_BackupArchiveIsRestorable ==
  mode = "backup" =>
    /\ ( Ended /\ result = "done" ) =>
         /\ archive.state = "ok"
         /\ LET stg == Extracted(archive)
            IN stg.htdocs.exists /\ stg.sql.exists
         /\ archive.nginx.exists <=> before.nginxConf # NoConf
         /\ before.nginxConf = NoConf =>
              \E m \in log : m.level = "warn" /\ m.msg = "Nginx config not found, skipping."
    /\ Did("archive") => result \in {"running", "done"}

\* C13 witness: a Backup run reached Done for a site without a proxy config.
C13_Witness ==
  /\ mode = "backup" /\ Ended /\ result = "done"
  /\ before.nginxConf = NoConf /\ ~archive.nginx.exists

\* C14: no message emitted through Log carries the database name, the user
\* or the password extracted from wp-config.php.
C14_CredentialsNeverLogged ==
  db_creds.found =>
    \A m \in log :
      m.args \cap {db_creds.name, db_creds.user, db_creds.password} = {}

\* the file holds a declaration of key k, with whatever value
Declared(tree, k) ==
  \E c \in tree.cfg : \E i \in DOMAIN c : c[i][1] = k

\* the file holds a declaration of key k with a non-empty value
DeclaredNonEmpty(tree, k) ==
  \E c \in tree.cfg : \E i \in DOMAIN c : c[i][1] = k /\ c[i][2] # ""

\* the result is all three fields, each taken from a declaration of its key,
\* or no result at all
AllOrNothing(tree, creds) ==
  IF creds.found
  THEN \E c \in tree.cfg : \E i, j, k \in DOMAIN c :
         /\ c[i] = <<"DB_NAME", creds.name>> /\ creds.name # ""
         /\ c[j] = <<"DB_USER", creds.user>> /\ creds.user # ""
         /\ c[k] = <<"DB_PASSWORD", creds.password>> /\ creds.password # ""
  ELSE creds = NoCreds

\* C15 as stated: _get_db_creds returns all three fields exactly when the file
\* is readable and holds all three declarations, and never a partial result.
C15_AllThreeWheneverDeclared ==
  ( mode = "creds" /\ pc = "end" ) =>
    /\ db_creds.found <=> \A k \in CredKeys : Declared(docroot, k)
    /\ AllOrNothing(docroot, db_creds)

\* C15 amended: _get_db_creds returns all three fields exactly when the file
\* is readable and holds, for each of the three keys, a declaration with a
\* non-empty value, in any order and among any other content; otherwise it
\* returns no result, never a partial one.
C15_AllThreeWheneverDeclaredNonEmpty ==
  ( mode = "creds" /\ pc = "end" ) =>
    /\ db_creds.found <=> \A k \in CredKeys : DeclaredNonEmpty(docroot, k)
    /\ AllOrNothing(docroot, db_creds)

\* C15 witness: the three fields were returned from a file that declares them
\* in another order, after unrelated content.
C15_Witness ==
  /\ mode = "creds" /\ pc = "end" /\ db_creds.found
  /\ \E c \in docroot.cfg :
       /\ Len(c) = 4 /\ c[1][1] = "OTHER" /\ c[2][1] = "DB_PASSWORD"
       /\ c[3][1] = "DB_NAME" /\ c[4][1] = "DB_USER"

\* the Backup state an operation belongs to
BackupStage(e) ==
  CASE e = "located" -> 1
    [] e \in {"asked", "declined", "makedirs", "makedirs_failed", "chown",
               "chown_failed"} -> 2
    [] e \in {"creds", "creds_failed"} -> 3
    [] e \in {"mkdtemp", "dump", "dump_failed"} -> 4
    [] e \in {"archive", "archive_failed"} -> 5
    [] OTHER -> 0

\* operations after which a Backup run stops
BackupStops ==
  {"declined", "makedirs_failed", "creds_failed", "dump_failed", "archive_failed"}

\* C16: in Backup the operations occur in the order Locating, DirectoryCheck,
\* CredentialsRead, Dumping, Archiving; nothing follows a failed step; no
\* prompt is asked when the document root is absent, no dump is started
\* unless credentials were extracted, and the archive file is opened only
\* after mysqldump exited zero.
C16_BackupStepsInOrder ==
  mode = "backup" =>
    /\ \A i, j \in DOMAIN hist :
         i < j => /\ 0 < BackupStage(hist[i])
                  /\ BackupStage(hist[i]) <= BackupStage(hist[j])
    /\ \A i \in DOMAIN hist : hist[i] \in BackupStops => i = Len(hist)
    /\ hist # << >> => hist[1] = "located" /\ before.docroot.exists
    /\ ~before.docroot.exists => ~Did("asked")
    /\ ( Did("dump") \/ Did("dump_failed") ) =>
         Did("creds") /\ db_creds.found /\ Did("mkdtemp")
    /\ ( Did("archive") \/ Did("archive_failed") \/ archive.state # "absent" )
         => Did("dump")

\* C16 witness: a Backup run ended on a failed dump.
C16_Witness == mode = "backup" /\ Ended /\ Did("dump_failed")

C18_ImportFailureIsNotRolledBack ==
  ( Ended /\ Did("drop") /\ Did("import_failed") ) =>
    /\ result = "failed"
    /\ db \subseteq archive.sql.tables
    /\ hist[Len(hist)] = "import_failed"
    /\ docroot = before.docroot /\ nginxConf = before.nginxConf
    /\ ~staging.exists

\* C18 witness: such a run ended, and a table it dropped is gone.
C18_Witness ==
  /\ Ended /\ Did("drop") /\ Did("import_failed")
  /\ \E t \in before.db : t \notin db

\* C19: in a Backup run the site root, the document root, the database and
\* the proxy config file stay as they were when the run started.
C19_BackupLeavesSiteUnchanged ==
  mode = "backup" =>
    /\ siteRoot = before.siteRoot
    /\ docroot = before.docroot
    /\ db = before.db
    /\ nginxConf = before.nginxConf

\* C19 witness: a Backup run reached Done and wrote its archive.
C19_Witness ==
  /\ mode = "backup" /\ Ended /\ result = "done"
  /\ archive.state = "ok" /\ before.db # {}

\* C20: after a Backup run that did not reach Done there is no output file;
\* an output file exists only if the dump and the archive write both
\* completed.
C20_NoArchiveUnlessDone ==
  ( mode = "backup" /\ Ended ) =>
    /\ result # "done" => archive.state = "absent"
    /\ archive.state # "absent" => Did("dump") /\ Did("archive")

====
